---- MODULE Spec2Model ----
(***************************************************************************)
(* The fetch / loading / pagination behaviour of three views of the        *)
(* FireFly explorer UI: Dashboard, AccountDetails and MessageDetails.      *)
(*                                                                         *)
(* Each view is a React function component: useState cells, useEffect      *)
(* bodies that run after a render in which one of their dependencies       *)
(* changed, and promise callbacks that run when a response arrives.  One   *)
(* view is mounted in a behaviour (variable view); the views share only    *)
(* the ambient selectedNamespace, which they read.                         *)
(*                                                                         *)
(* Requests in flight are kept as bags; a response may arrive for any of   *)
(* them, in any order (nothing cancels or tags a request).                 *)
(***************************************************************************)
EXTENDS Integers, Sequences, FiniteSets, Bags, TLC

VARIABLES
    view,                 \* which component is mounted
    selectedNamespace,    \* NamespaceContext value
    loading,              \* the mounted view's loading state
    \* Dashboard
    messages,             \* namespace whose messages are held, or NoData
    txSequence,
    transactions,
    dashRuns,             \* bag of effect runs whose promise chain has not finished
    \* AccountDetails
    poolProtocolID,       \* route parameter (fixed in a behaviour)
    tokenAccount,         \* [ns, pool] of the account held, or NoData
    tokenTransfers,       \* request whose items are held, or NoData
    tokenTransfersTotal,
    currentPage,
    rowsPerPage,
    accountReqs,          \* account requests in flight (a bag)
    transferReqs,         \* transfers requests in flight (a bag)
    \* MessageDetails
    message,              \* the message prop
    txId,                 \* [ns, batch] whose tx id is held, or NoData
    batchReqs,            \* batch requests in flight (a bag)
    \* history
    lastEvent             \* the handler / callback that ran last, and its input

vars == << view, selectedNamespace, loading, messages, txSequence, transactions,
           dashRuns, poolProtocolID, tokenAccount, tokenTransfers,
           tokenTransfersTotal, currentPage, rowsPerPage, accountReqs,
           transferReqs, message, txId, batchReqs, lastEvent >>

dashVars == << messages, txSequence, transactions, dashRuns >>
acctVars == << poolProtocolID, tokenAccount, tokenTransfers, tokenTransfersTotal,
               currentPage, rowsPerPage, accountReqs, transferReqs >>
msgVars  == << message, txId, batchReqs >>

----------------------------------------------------------------------------
(* Bounds of the model *)

MaxInFlight == 3      \* requests of AccountDetails or MessageDetails in flight
MaxRuns == 2          \* effect runs of Dashboard that have not finished

(* Inputs *)

Views == {"Dashboard", "AccountDetails", "MessageDetails"}
Namespaces == {"N1", "N2"}
Pages == 0..2                         \* page indices a page change may ask for
Totals == {0, 7, 10}                  \* totals a transfers response may report
PAGE_LIMITS == << 5, 10 >>
PageLimitSet == {PAGE_LIMITS[i] : i \in DOMAIN PAGE_LIMITS}

\* message.batchID and message.header.tx.type of the messages the panel may show
Messages == { [id |-> "m1", batchID |-> "b1", txType |-> "pin"],
              [id |-> "m2", batchID |-> "b2", txType |-> "pin"],
              [id |-> "m3", batchID |-> "b2", txType |-> "none"] }

NoData == [none |-> TRUE]             \* undefined / [] : nothing fetched

\* lastEvent: the operation, its numeric input and the outcome of the fetch
\* it settles ("ok", or "bad" for a non-2xx response; a rejected fetch, which
\* skips .then, is "bad" too where the code's path is the same, "err" where
\* it differs)
Event(op, n, out) == [op |-> op, n |-> n, out |-> out]

One(x) == SetToBag({x})

Min(a, b) == IF a < b THEN a ELSE b

----------------------------------------------------------------------------
(* AccountDetails *)

\* the account URL: namespace and pool
AccountRequest(ns, pool) == [ns |-> ns, pool |-> pool]

\* the transfers URL: namespace, pool, limit and skip
TransfersRequest(ns, pool, rpp, page) ==
    [ns |-> ns, pool |-> pool, limit |-> rpp, skip |-> rpp * page]

\* useEffect(..., [selectedNamespace, poolProtocolID]): the body runs after a
\* render in which a dependency differs from the previous render's
AccountEffect(oldDeps, newDeps, reqs) ==
    IF oldDeps = newDeps
    THEN reqs
    ELSE reqs (+) One(AccountRequest(newDeps[1], newDeps[2]))

\* variant: the request is built from the page of the previous render
TransfersEffectOldPage(oldDeps, newDeps, reqs) ==
    IF oldDeps = newDeps
    THEN reqs
    ELSE reqs (+) One(TransfersRequest(newDeps[3], newDeps[4], newDeps[1],
                                       oldDeps[2]))

\* variant: a dependency array of [currentPage] alone
TransfersEffectPageOnly(oldDeps, newDeps, reqs) ==
    IF oldDeps[2] = newDeps[2]
    THEN reqs
    ELSE reqs (+) One(TransfersRequest(newDeps[3], newDeps[4], newDeps[1],
                                       newDeps[2]))

\* useEffect(..., [rowsPerPage, currentPage, selectedNamespace, poolProtocolID])
TransfersEffect(oldDeps, newDeps, reqs) ==
    IF oldDeps = newDeps
    THEN reqs
    ELSE reqs (+) One(TransfersRequest(newDeps[3], newDeps[4], newDeps[1],
                                       newDeps[2]))

TransfersDeps == << rowsPerPage, currentPage, selectedNamespace, poolProtocolID >>

InFlight == BagCardinality(accountReqs) + BagCardinality(transferReqs)

\* variant: > in place of >=
PageChangeRejectedStrict(newPage, page, rpp, total) ==
    newPage > page /\ rpp * (page + 1) > total

\* variant: no guard
PageChangeRejectedNever(newPage, page, rpp, total) == FALSE

\* the guard of handleChangePage
PageChangeRejected(newPage, page, rpp, total) ==
    newPage > page /\ rpp * (page + 1) >= total

\* handleChangePage, the render it causes and the effects of that render
HandleChangePage(newPage) ==
    /\ view = "AccountDetails"
    /\ LET nextPage == IF PageChangeRejected(newPage, currentPage, rowsPerPage,
                                             tokenTransfersTotal)
                       THEN currentPage
                       ELSE newPage
           reqs == TransfersEffect(TransfersDeps,
                                   << rowsPerPage, nextPage, selectedNamespace,
                                      poolProtocolID >>,
                                   transferReqs)
       IN  /\ BagCardinality(accountReqs) + BagCardinality(reqs) <= MaxInFlight
           /\ currentPage' = nextPage
           /\ transferReqs' = reqs
    /\ lastEvent' = Event("setPage", newPage, "")
    /\ UNCHANGED << view, selectedNamespace, loading, dashVars, msgVars,
                    poolProtocolID, tokenAccount, tokenTransfers,
                    tokenTransfersTotal, rowsPerPage, accountReqs >>

\* handleChangeRowsPerPage: setCurrentPage(0) and setRowsPerPage(n) are
\* applied in one render (they are called from one event handler), then
\* the effects of that render run
HandleChangeRowsPerPage(n) ==
    /\ view = "AccountDetails"
    /\ LET reqs == TransfersEffect(TransfersDeps,
                                   << n, 0, selectedNamespace, poolProtocolID >>,
                                   transferReqs)
       IN  /\ BagCardinality(accountReqs) + BagCardinality(reqs) <= MaxInFlight
           /\ currentPage' = 0
           /\ rowsPerPage' = n
           /\ transferReqs' = reqs
    /\ lastEvent' = Event("setRowsPerPage", n, "")
    /\ UNCHANGED << view, selectedNamespace, loading, dashVars, msgVars,
                    poolProtocolID, tokenAccount, tokenTransfers,
                    tokenTransfersTotal, accountReqs >>

\* a render with a new namespace or pool: both effects run; the account
\* effect sets loading before it issues its request
AccountScopeChange(ns, pool) ==
    /\ view = "AccountDetails"
    /\ << ns, pool >> # << selectedNamespace, poolProtocolID >>
    /\ InFlight + 2 <= MaxInFlight
    /\ selectedNamespace' = ns
    /\ poolProtocolID' = pool
    /\ loading' = TRUE
    /\ accountReqs' = AccountEffect(<< selectedNamespace, poolProtocolID >>,
                                    << ns, pool >>, accountReqs)
    /\ transferReqs' = TransfersEffect(TransfersDeps,
                                       << rowsPerPage, currentPage, ns, pool >>,
                                       transferReqs)
    /\ lastEvent' = Event("scope", 0, "")
    /\ UNCHANGED << view, dashVars, msgVars, tokenAccount, tokenTransfers,
                    tokenTransfersTotal, currentPage, rowsPerPage >>

\* NamespaceContext provides another namespace.  (The route parameter is
\* kept fixed: a change of it takes this same path, both being dependencies
\* of both effects.)
AccountNamespaceChange(ns) == AccountScopeChange(ns, poolProtocolID)

\* .then of the account fetch: a 2xx response with a first element ("ok"),
\* a 2xx response with an empty list ("empty": [][0] is undefined), or a
\* failure ("bad": the else branch, or .then skipped)
AccountThen(outcome, req, held) ==
    CASE outcome = "ok"    -> AccountRequest(req.ns, req.pool)
      [] outcome = "empty" -> NoData
      [] OTHER             -> held

\* an account request settles: .then, then .finally
AccountSettle(req, outcome) ==
    /\ view = "AccountDetails"
    /\ BagIn(req, accountReqs)
    /\ tokenAccount' = AccountThen(outcome, req, tokenAccount)
    /\ loading' = FALSE
    /\ accountReqs' = accountReqs (-) One(req)
    /\ lastEvent' = Event("accountSettled", 0, outcome)
    /\ UNCHANGED << view, selectedNamespace, dashVars, msgVars, poolProtocolID,
                    tokenTransfers, tokenTransfersTotal, currentPage,
                    rowsPerPage, transferReqs >>

\* variant: the transfers fetch leaves the flag alone
TransfersFinallyKeep(flag) == flag

\* .finally of the transfers fetch: setLoading(false)
TransfersFinally(flag) == FALSE

\* variant: a response is applied only if its request is the one of the
\* current inputs
TransfersOkIfCurrent(req, total) ==
    /\ view = "AccountDetails"
    /\ BagIn(req, transferReqs)
    /\ LET current == req = TransfersRequest(selectedNamespace, poolProtocolID,
                                             rowsPerPage, currentPage)
       IN  /\ tokenTransfersTotal' = IF current THEN total ELSE tokenTransfersTotal
           /\ tokenTransfers' = IF current THEN req ELSE tokenTransfers
    /\ loading' = FALSE
    /\ transferReqs' = transferReqs (-) One(req)
    /\ lastEvent' = Event("transfersSettled", 0, "ok")
    /\ UNCHANGED << view, selectedNamespace, dashVars, msgVars, poolProtocolID,
                    tokenAccount, currentPage, rowsPerPage, accountReqs >>

\* a transfers request gets a 2xx response { total, items }
TransfersOk(req, total) ==
    /\ view = "AccountDetails"
    /\ BagIn(req, transferReqs)
    /\ tokenTransfersTotal' = total
    /\ tokenTransfers' = req
    /\ loading' = TransfersFinally(loading)
    /\ transferReqs' = transferReqs (-) One(req)
    /\ lastEvent' = Event("transfersSettled", 0, "ok")
    /\ UNCHANGED << view, selectedNamespace, dashVars, msgVars, poolProtocolID,
                    tokenAccount, currentPage, rowsPerPage, accountReqs >>

\* a transfers request gets a non-2xx response or is rejected
TransfersFail(req) ==
    /\ view = "AccountDetails"
    /\ BagIn(req, transferReqs)
    /\ loading' = TransfersFinally(loading)
    /\ transferReqs' = transferReqs (-) One(req)
    /\ lastEvent' = Event("transfersSettled", 0, "bad")
    /\ UNCHANGED << view, selectedNamespace, dashVars, msgVars, poolProtocolID,
                    tokenAccount, tokenTransfers, tokenTransfersTotal,
                    currentPage, rowsPerPage, accountReqs >>

\* tokenTransfers.length: the items a response to req holds when the server
\* reports total
ItemCount(req, total) ==
    IF total - req.skip <= 0 THEN 0 ELSE Min(req.limit, total - req.skip)

\* the render shows the table (and its pagination control) rather than the
\* spinner, the blank fragment or the empty state
TableRendered ==
    /\ view = "AccountDetails"
    /\ ~loading
    /\ tokenAccount # NoData
    /\ tokenTransfers # NoData
    /\ ItemCount(tokenTransfers, tokenTransfersTotal) > 0

AccountNext ==
    \/ \E p \in Pages : HandleChangePage(p)
    \/ \E n \in PageLimitSet : HandleChangeRowsPerPage(n)
    \/ \E ns \in Namespaces : AccountNamespaceChange(ns)
    \/ \E r \in BagToSet(accountReqs), o \in {"ok", "empty", "bad"} :
          AccountSettle(r, o)
    \/ \E r \in BagToSet(transferReqs), t \in Totals : TransfersOk(r, t)
    \/ \E r \in BagToSet(transferReqs) : TransfersFail(r)

----------------------------------------------------------------------------
(* Dashboard *)

\* The three fetches of one effect run, in the order of the Promise.all
\* array: messages, tx sequence (limit=1), transactions (last day).
\* resp[k] is "pending", "ok" or "bad" (non-2xx) while Promise.all is pending;
\* once it has rejected, the results are dropped and resp[k] only tells
\* whether fetch k is still in flight ("pending") or not ("dropped").
\* stage is where the promise chain of the run stands.
NewRun(ns) ==
    [ns |-> ns, resp |-> << "pending", "pending", "pending" >>, stage |-> "all"]

Pending(run) == {k \in 1..3 : run.resp[k] = "pending"}

\* what a 2xx response of a fetch against namespace ns holds
DashboardData(ns) == [ns |-> ns]

\* the effect body: setLoading(true), then the three fetches
DashboardEffect(ns, runs) == runs (+) One(NewRun(ns))

\* NamespaceContext provides another namespace: the effect runs again
DashboardNamespaceChange(ns) ==
    /\ view = "Dashboard"
    /\ ns # selectedNamespace
    /\ BagCardinality(dashRuns) < MaxRuns
    /\ selectedNamespace' = ns
    /\ loading' = TRUE
    /\ dashRuns' = DashboardEffect(ns, dashRuns)
    /\ lastEvent' = Event("scope", 0, "")
    /\ UNCHANGED << view, messages, txSequence, transactions, acctVars, msgVars >>

\* variant: two ok responses are enough
AllOkButOne(resp) ==
    Cardinality({k \in 1..3 : resp[k] = "ok"}) >= 2

\* the condition of the .then callback
AllOk(resp) == resp[1] = "ok" /\ resp[2] = "ok" /\ resp[3] = "ok"

\* fetch k of a run gets its response and Promise.all stays pending (other
\* fetches of the run are outstanding)
DashboardFetchResponds(run, k, outcome) ==
    /\ view = "Dashboard"
    /\ BagIn(run, dashRuns)
    /\ run.stage = "all"
    /\ k \in Pending(run)
    /\ Pending(run) # {k}
    /\ dashRuns' = (dashRuns (-) One(run))
                      (+) One([run EXCEPT !.resp[k] = outcome])
    /\ lastEvent' = Event("fetchSettled", 0, "")
    /\ UNCHANGED << view, selectedNamespace, loading, messages, txSequence,
                    transactions, acctVars, msgVars >>

\* fetch k of a run whose Promise.all has rejected settles: nothing uses it
DashboardFetchDropped(run, k) ==
    /\ view = "Dashboard"
    /\ BagIn(run, dashRuns)
    /\ run.stage = "rejected"
    /\ k \in Pending(run)
    /\ dashRuns' = IF Pending(run) = {k}
                   THEN dashRuns (-) One(run)
                   ELSE (dashRuns (-) One(run))
                           (+) One([run EXCEPT !.resp[k] = "dropped"])
    /\ lastEvent' = Event("fetchSettled", 0, "")
    /\ UNCHANGED << view, selectedNamespace, loading, messages, txSequence,
                    transactions, acctVars, msgVars >>

\* fetch k of a run is rejected: Promise.all rejects at once, .then is
\* skipped and .finally clears loading; the other fetches stay in flight
DashboardFetchRejects(run, k) ==
    /\ view = "Dashboard"
    /\ BagIn(run, dashRuns)
    /\ run.stage = "all"
    /\ k \in Pending(run)
    /\ dashRuns' =
          IF Pending(run) = {k}
          THEN dashRuns (-) One(run)
          ELSE (dashRuns (-) One(run))
                  (+) One([run EXCEPT
                             !.resp = [j \in 1..3 |->
                                         IF j \in Pending(run) \ {k}
                                         THEN "pending"
                                         ELSE "dropped"],
                             !.stage = "rejected"])
    /\ loading' = FALSE
    /\ lastEvent' = Event("rejected", 0, "err")
    /\ UNCHANGED << view, selectedNamespace, messages, txSequence,
                    transactions, acctVars, msgVars >>

\* the last fetch k of a run gets its response and Promise.all resolves:
\* with all three ok the callback awaits messageResponse.json(); otherwise
\* it sets nothing and .finally clears loading
DashboardAllSettled(run, k, outcome) ==
    /\ view = "Dashboard"
    /\ BagIn(run, dashRuns)
    /\ run.stage = "all"
    /\ Pending(run) = {k}
    /\ LET resp == [run.resp EXCEPT ![k] = outcome]
           nBad == Cardinality({j \in 1..3 : resp[j] = "bad"})
       IN  /\ IF AllOk(resp)
              THEN /\ dashRuns' = (dashRuns (-) One(run))
                                     (+) One([run EXCEPT !.resp = resp,
                                                         !.stage = "messages"])
                   /\ UNCHANGED loading
              ELSE /\ dashRuns' = dashRuns (-) One(run)
                   /\ loading' = FALSE
           /\ lastEvent' = Event("allSettled", nBad,
                                 IF nBad = 0 THEN "ok" ELSE "bad")
    /\ UNCHANGED << view, selectedNamespace, messages, txSequence,
                    transactions, acctVars, msgVars >>

\* setMessages(await messageResponse.json())
DashboardSetMessages(run) ==
    /\ view = "Dashboard"
    /\ BagIn(run, dashRuns)
    /\ run.stage = "messages"
    /\ messages' = DashboardData(run.ns)
    /\ dashRuns' = (dashRuns (-) One(run))
                      (+) One([run EXCEPT !.stage = "transactions"])
    /\ lastEvent' = Event("set", 0, "")
    /\ UNCHANGED << view, selectedNamespace, loading, txSequence, transactions,
                    acctVars, msgVars >>

\* setTransactions(await txResponse.json())
DashboardSetTransactions(run) ==
    /\ view = "Dashboard"
    /\ BagIn(run, dashRuns)
    /\ run.stage = "transactions"
    /\ transactions' = DashboardData(run.ns)
    /\ dashRuns' = (dashRuns (-) One(run))
                      (+) One([run EXCEPT !.stage = "txSequence"])
    /\ lastEvent' = Event("set", 0, "")
    /\ UNCHANGED << view, selectedNamespace, loading, messages, txSequence,
                    acctVars, msgVars >>

\* setTxSequence(await txSequenceResponse.json()), the end of the callback,
\* then .finally
DashboardSetTxSequence(run) ==
    /\ view = "Dashboard"
    /\ BagIn(run, dashRuns)
    /\ run.stage = "txSequence"
    /\ txSequence' = DashboardData(run.ns)
    /\ loading' = FALSE
    /\ dashRuns' = dashRuns (-) One(run)
    /\ lastEvent' = Event("set", 0, "done")
    /\ UNCHANGED << view, selectedNamespace, messages, transactions,
                    acctVars, msgVars >>

\* fetches of the view that have not settled
DashboardFetchesInFlight ==
    \E run \in BagToSet(dashRuns) : Pending(run) # {}

DashboardNext ==
    \/ \E ns \in Namespaces : DashboardNamespaceChange(ns)
    \/ \E run \in BagToSet(dashRuns), k \in 1..3, o \in {"ok", "bad"} :
          DashboardFetchResponds(run, k, o)
    \/ \E run \in BagToSet(dashRuns), k \in 1..3 : DashboardFetchDropped(run, k)
    \/ \E run \in BagToSet(dashRuns), k \in 1..3 : DashboardFetchRejects(run, k)
    \/ \E run \in BagToSet(dashRuns), k \in 1..3, o \in {"ok", "bad"} :
          DashboardAllSettled(run, k, o)
    \/ \E run \in BagToSet(dashRuns) : DashboardSetMessages(run)
    \/ \E run \in BagToSet(dashRuns) : DashboardSetTransactions(run)
    \/ \E run \in BagToSet(dashRuns) : DashboardSetTxSequence(run)

----------------------------------------------------------------------------
(* MessageDetails *)

\* the batch URL: namespace and message.batchID
BatchRequest(ns, batch) == [ns |-> ns, batch |-> batch]

\* useEffect(..., [message.batchID, selectedNamespace])
BatchEffect(oldDeps, newDeps, reqs) ==
    IF oldDeps = newDeps
    THEN reqs
    ELSE reqs (+) One(BatchRequest(newDeps[2], newDeps[1]))

\* a render with another message prop or another namespace; when a
\* dependency of the effect changed, the effect sets loading and fetches
MessageRender(m, ns) ==
    /\ view = "MessageDetails"
    /\ << m, ns >> # << message, selectedNamespace >>
    /\ LET reqs == BatchEffect(<< message.batchID, selectedNamespace >>,
                               << m.batchID, ns >>, batchReqs)
       IN  /\ BagCardinality(reqs) <= MaxInFlight
           /\ batchReqs' = reqs
           /\ loading' = IF reqs = batchReqs THEN loading ELSE TRUE
    /\ message' = m
    /\ selectedNamespace' = ns
    /\ lastEvent' = Event("scope", 0, "")
    /\ UNCHANGED << view, txId, dashVars, acctVars >>

\* the parent passes another message
MessageChange(m) == MessageRender(m, selectedNamespace)

\* NamespaceContext provides another namespace
MessageNamespaceChange(ns) == MessageRender(message, ns)

\* .then of the batch fetch: setTxId(batch.payload.tx.id) on a 2xx response
BatchThen(outcome, req, held) ==
    IF outcome = "ok" THEN BatchRequest(req.ns, req.batch) ELSE held

\* variant: loading is cleared in .then, on a 2xx response only
BatchSettleThenOnly(req, outcome) ==
    /\ view = "MessageDetails"
    /\ BagIn(req, batchReqs)
    /\ txId' = BatchThen(outcome, req, txId)
    /\ loading' = IF outcome = "ok" THEN FALSE ELSE loading
    /\ batchReqs' = batchReqs (-) One(req)
    /\ lastEvent' = Event("batchSettled", 0, outcome)
    /\ UNCHANGED << view, selectedNamespace, message, dashVars, acctVars >>

\* a batch request settles: .then, then .finally
BatchSettle(req, outcome) ==
    /\ view = "MessageDetails"
    /\ BagIn(req, batchReqs)
    /\ txId' = BatchThen(outcome, req, txId)
    /\ loading' = FALSE
    /\ batchReqs' = batchReqs (-) One(req)
    /\ lastEvent' = Event("batchSettled", 0, outcome)
    /\ UNCHANGED << view, selectedNamespace, message, dashVars, acctVars >>

\* pinned(): the text of the row
PinnedText(txType) == IF txType = "pin" THEN "yes" ELSE "no"

\* pinned(): {txId && <Button .../>}
ViewTxShown(held) == held # NoData

MessageNext ==
    \/ \E m \in Messages : MessageChange(m)
    \/ \E ns \in Namespaces : MessageNamespaceChange(ns)
    \/ \E r \in BagToSet(batchReqs), o \in {"ok", "bad"} : BatchSettle(r, o)

----------------------------------------------------------------------------
(* The mounted view after its first render and the effects of that render. *)
(* The code treats all namespaces and all messages alike, so the view is   *)
(* mounted with the first of each.                                         *)

Init ==
    /\ view \in Views
    /\ selectedNamespace = "N1"
    /\ poolProtocolID = "P1"
    /\ message = CHOOSE m \in Messages : m.id = "m1"
    /\ loading = TRUE
    /\ messages = NoData
    /\ txSequence = NoData
    /\ transactions = NoData
    /\ dashRuns = IF view = "Dashboard"
                  THEN DashboardEffect(selectedNamespace, EmptyBag)
                  ELSE EmptyBag
    /\ tokenAccount = NoData
    /\ tokenTransfers = NoData
    /\ tokenTransfersTotal = 0
    /\ currentPage = 0
    /\ rowsPerPage = PAGE_LIMITS[1]
    /\ accountReqs = IF view = "AccountDetails"
                     THEN One(AccountRequest(selectedNamespace, poolProtocolID))
                     ELSE EmptyBag
    /\ transferReqs = IF view = "AccountDetails"
                      THEN One(TransfersRequest(selectedNamespace, poolProtocolID,
                                                PAGE_LIMITS[1], 0))
                      ELSE EmptyBag
    /\ txId = NoData
    /\ batchReqs = IF view = "MessageDetails"
                   THEN One(BatchRequest(selectedNamespace, message.batchID))
                   ELSE EmptyBag
    /\ lastEvent = Event("mount", 0, "")

Next == DashboardNext \/ AccountNext \/ MessageNext

Spec == Init /\ [][Next]_vars

\* one view at a time
InitDashboard == Init /\ view = "Dashboard"
InitAccount == Init /\ view = "AccountDetails"
InitMessage == Init /\ view = "MessageDetails"

SpecDashboard == InitDashboard /\ [][DashboardNext]_vars
SpecAccount == InitAccount /\ [][AccountNext]_vars
SpecMessage == InitMessage /\ [][MessageNext]_vars

\* A step of a promise chain: a response or a transport error arrives, or a
\* callback of the chain goes on after an await. None of them waits for the
\* user.
Settles ==
    \/ \E run \in BagToSet(dashRuns), k \in 1..3, o \in {"ok", "bad"} :
          DashboardFetchResponds(run, k, o)
    \/ \E run \in BagToSet(dashRuns), k \in 1..3 : DashboardFetchDropped(run, k)
    \/ \E run \in BagToSet(dashRuns), k \in 1..3 : DashboardFetchRejects(run, k)
    \/ \E run \in BagToSet(dashRuns), k \in 1..3, o \in {"ok", "bad"} :
          DashboardAllSettled(run, k, o)
    \/ \E run \in BagToSet(dashRuns) : DashboardSetMessages(run)
    \/ \E run \in BagToSet(dashRuns) : DashboardSetTransactions(run)
    \/ \E run \in BagToSet(dashRuns) : DashboardSetTxSequence(run)
    \/ \E r \in BagToSet(accountReqs), o \in {"ok", "empty", "bad"} :
          AccountSettle(r, o)
    \/ \E r \in BagToSet(transferReqs), t \in Totals : TransfersOk(r, t)
    \/ \E r \in BagToSet(transferReqs) : TransfersFail(r)
    \/ \E r \in BagToSet(batchReqs), o \in {"ok", "bad"} : BatchSettle(r, o)

\* every request issued settles in the end, and the callbacks of a settled
\* promise are run by the event loop
SpecLive == Init /\ [][Next]_vars /\ WF_vars(Settles)

----------------------------------------------------------------------------
(* AccountDetails: pagination *)

\* the transfers request of the current inputs
CurrentTransfersRequest ==
    TransfersRequest(selectedNamespace, poolProtocolID, rowsPerPage, currentPage)

\* C1: a page change to page next is rejected (currentPage unchanged) exactly
\* when next > currentPage and rowsPerPage * (currentPage + 1) >= totalCount;
\* in every other case currentPage becomes next.
C1_PageChangeGuard ==
    [][lastEvent'.op = "setPage" =>
          LET next == lastEvent'.n
          IN  currentPage' =
                 IF next > currentPage
                    /\ rowsPerPage * (currentPage + 1) >= tokenTransfersTotal
                 THEN currentPage
                 ELSE next]_vars

\* with 5 rows per page and a total of 7, page 1 was accepted and page 2 has
\* just been refused
C1_Witness ==
    /\ lastEvent = Event("setPage", 2, "")
    /\ currentPage = 1
    /\ rowsPerPage = 5
    /\ tokenTransfersTotal = 7

\* C2: changing rowsPerPage to a different value n sets rowsPerPage = n and
\* currentPage = 0, and exactly one transfers request is issued, with
\* limit = n and skip = 0.
C2_RowsPerPageChange ==
    [][lastEvent'.op = "setRowsPerPage" /\ lastEvent'.n # rowsPerPage =>
          /\ rowsPerPage' = lastEvent'.n
          /\ currentPage' = 0
          /\ transferReqs' =
                transferReqs (+) One([ns |-> selectedNamespace,
                                      pool |-> poolProtocolID,
                                      limit |-> lastEvent'.n,
                                      skip |-> 0])]_vars

\* the page size went from 5 to 10 while the request of page 1 was in flight
C2_Witness ==
    /\ lastEvent = Event("setRowsPerPage", 10, "")
    /\ currentPage = 0
    /\ rowsPerPage = 10
    /\ BagIn(TransfersRequest(selectedNamespace, poolProtocolID, 5, 1), transferReqs)
    /\ BagIn(TransfersRequest(selectedNamespace, poolProtocolID, 10, 0), transferReqs)

\* a step of handleChangePage that passes the guard, or of
\* handleChangeRowsPerPage
C3_AcceptedTransition ==
    \/ /\ lastEvent'.op = "setPage"
       /\ ~ (/\ lastEvent'.n > currentPage
             /\ rowsPerPage * (currentPage + 1) >= tokenTransfersTotal)
    \/ lastEvent'.op = "setRowsPerPage"

C3_FetchIssued ==
    transferReqs' =
       transferReqs (+) One([ns |-> selectedNamespace',
                             pool |-> poolProtocolID',
                             limit |-> rowsPerPage',
                             skip |-> rowsPerPage' * currentPage'])

\* C3 as stated: every accepted pagination transition, also one that leaves
\* the values as they were, triggers a new transfers fetch with
\* limit = rowsPerPage and skip = rowsPerPage * currentPage.
C3_EveryAcceptedTransitionFetches ==
    [][C3_AcceptedTransition => C3_FetchIssued]_vars

\* C3 amended: an accepted pagination transition that changes currentPage or
\* rowsPerPage triggers exactly one new transfers fetch with
\* limit = rowsPerPage and skip = rowsPerPage * currentPage of the new
\* values; one that leaves both as they were issues no fetch.
C3_ChangingTransitionFetches ==
    [][C3_AcceptedTransition =>
          IF currentPage' # currentPage \/ rowsPerPage' # rowsPerPage
          THEN C3_FetchIssued
          ELSE transferReqs' = transferReqs]_vars

\* page 1 was accepted and its request is in flight
C3_Witness ==
    /\ lastEvent = Event("setPage", 1, "")
    /\ currentPage = 1
    /\ BagIn(CurrentTransfersRequest, transferReqs)

\* C9: until the first successful transfers response is applied, totalCount
\* is 0 and currentPage is 0 (every page advance is refused), also after
\* changes of rowsPerPage.
C9_NoAdvanceBeforeData ==
    tokenTransfers = NoData => tokenTransfersTotal = 0 /\ currentPage = 0

\* no data yet, the page size was changed and an advance has just been asked
C9_Witness ==
    /\ tokenTransfers = NoData
    /\ rowsPerPage = 10
    /\ lastEvent = Event("setPage", 1, "")
    /\ currentPage = 0

\* C10: when a transfers request settles while the account request of the
\* current namespace and pool is outstanding, loading becomes false and the
\* account request stays outstanding.
C10_TransfersClearLoading ==
    [][/\ lastEvent'.op = "transfersSettled"
       /\ BagIn(AccountRequest(selectedNamespace, poolProtocolID), accountReqs)
       => /\ ~loading'
          /\ accountReqs' = accountReqs]_vars

\* the spinner is gone while the account fetch is still outstanding
C10_Witness ==
    /\ lastEvent.op = "transfersSettled"
    /\ ~loading
    /\ BagIn(AccountRequest(selectedNamespace, poolProtocolID), accountReqs)

----------------------------------------------------------------------------
(* Namespace switch, loading flag and failed fetches, in the three views *)

OfNamespace(x, ns) == x # NoData /\ x.ns = ns

OfOtherNamespace(x, ns) == x # NoData /\ x.ns # ns

\* every namespace-scoped fetch of the mounted view is issued against the
\* new namespace
C4_Reissued ==
    selectedNamespace' # selectedNamespace =>
       CASE view = "Dashboard" ->
               dashRuns' = dashRuns (+) One(NewRun(selectedNamespace'))
         [] view = "AccountDetails" ->
               /\ accountReqs' = accountReqs
                     (+) One(AccountRequest(selectedNamespace', poolProtocolID))
               /\ transferReqs' = transferReqs
                     (+) One(TransfersRequest(selectedNamespace', poolProtocolID,
                                              rowsPerPage, currentPage))
         [] view = "MessageDetails" ->
               batchReqs' = batchReqs
                     (+) One(BatchRequest(selectedNamespace', message.batchID))

\* a slice that holds the data of the active namespace does not come to hold
\* the data of another one while that namespace stays active
C4_DataStays ==
    selectedNamespace' = selectedNamespace =>
       \A k \in 1..6 :
          LET old == << messages, txSequence, transactions, tokenAccount,
                        tokenTransfers, txId >>[k]
              new == << messages', txSequence', transactions', tokenAccount',
                        tokenTransfers', txId' >>[k]
          IN  OfNamespace(old, selectedNamespace)
                 => ~ OfOtherNamespace(new, selectedNamespace)

\* the first half of C4 alone
C4_ReissuedAlways == [][C4_Reissued]_vars

\* C4: when the namespace changes from N1 to N2 every namespace-scoped fetch
\* of the view is re-issued against N2, and once N2's successful response
\* has been applied the view's data is N2's, never N1's, whatever the order
\* in which the responses in flight resolve.
C4_NamespaceSwitch == [][C4_Reissued /\ C4_DataStays]_vars

\* requests of the mounted view that have not settled
RequestsInFlight ==
    \/ DashboardFetchesInFlight
    \/ accountReqs # EmptyBag
    \/ transferReqs # EmptyBag
    \/ batchReqs # EmptyBag

\* C5: in Dashboard and MessageDetails, whenever loading is false no request
\* issued by the view is still in flight.
C5_LoadingCoversRequests ==
    view \in {"Dashboard", "MessageDetails"} /\ ~loading => ~RequestsInFlight

\* C6: after a fetch settles with a non-2xx response, the slice it feeds is
\* at its empty value and loading is cleared, also when an earlier fetch
\* for other inputs had succeeded.  (Dashboard: a run whose three fetches
\* all returned non-2xx leaves its three slices empty.)
C6_FailedFetchLeavesSliceEmpty ==
    [][lastEvent'.out = "bad" =>
          /\ ~loading'
          /\ lastEvent'.op = "allSettled" /\ lastEvent'.n = 3 =>
                /\ messages' = NoData
                /\ txSequence' = NoData
                /\ transactions' = NoData
          /\ lastEvent'.op = "accountSettled" => tokenAccount' = NoData
          /\ lastEvent'.op = "transfersSettled" =>
                tokenTransfers' = NoData /\ tokenTransfersTotal' = 0
          /\ lastEvent'.op = "batchSettled" => txId' = NoData]_vars

\* the entities of Dashboard that hold data
DashboardPopulated ==
    {k \in 1..3 : << messages, txSequence, transactions >>[k] # NoData}

\* C7 as stated: when the three fetches of a run have settled and exactly one
\* returned non-2xx, that entity alone is empty, the other two are
\* populated, and loading is cleared.
C7_OnlyFailedEntityEmpty ==
    lastEvent = Event("allSettled", 1, "bad") =>
       ~loading /\ Cardinality(DashboardPopulated) = 2

\* C7 amended: when the three fetches of a run have all settled and exactly
\* one returned non-2xx, the run populates no entity (messages, txSequence
\* and transactions keep the values they had), and loading is cleared.
C7_FailedRunSetsNothing ==
    [][lastEvent'.op = "allSettled" /\ lastEvent'.n = 1 =>
          /\ ~loading'
          /\ messages' = messages
          /\ txSequence' = txSequence
          /\ transactions' = transactions]_vars

\* a run with exactly one non-2xx response has settled after an earlier run
\* had populated the view: the earlier data is still there
C7_Witness ==
    /\ lastEvent = Event("allSettled", 1, "bad")
    /\ ~loading
    /\ Cardinality(DashboardPopulated) = 3

\* C8: once the batch fetches have settled, the row shows "yes" iff the
\* message's tx type is "pin", and shows the navigation action only if a
\* transaction id was resolved for that message's batch in the active
\* namespace; after a non-2xx response for a message's batch there is no
\* navigation action.
C8_PinnedRow ==
    view = "MessageDetails" /\ batchReqs = EmptyBag /\ ~loading =>
       /\ PinnedText(message.txType) = "yes" <=> message.txType = "pin"
       /\ ViewTxShown(txId) =>
             txId = BatchRequest(selectedNamespace, message.batchID)
       /\ lastEvent = Event("batchSettled", 0, "bad") => ~ViewTxShown(txId)

----------------------------------------------------------------------------
(* AccountDetails: responses that arrive out of order *)

\* no transfers request of the view is in flight
TransfersQuiescent == view = "AccountDetails" /\ transferReqs = EmptyBag

\* C11: transfers requests in flight are never cancelled or tagged: a change
\* of page, page size or namespace leaves every request in flight, and a 2xx
\* response to any request in flight, current or not, is applied to
\* tokenTransfers and tokenTransfersTotal.
C11_LastToResolveWins ==
    [][/\ lastEvent'.op \in {"setPage", "setRowsPerPage", "scope"} =>
             \A req \in BagToSet(transferReqs) :
                CopiesIn(req, transferReqs') >= CopiesIn(req, transferReqs)
       /\ lastEvent' = Event("transfersSettled", 0, "ok") =>
             \A req \in BagToSet(transferReqs) :
                transferReqs' = transferReqs (-) One(req) =>
                   /\ tokenTransfers' = req
                   /\ tokenTransfersTotal' \in Totals]_vars

\* nothing is in flight, and the response applied last was that of a request
\* for another (rowsPerPage, currentPage) than the current one: it resolved
\* after the response of the current request
C11_Witness ==
    /\ TransfersQuiescent
    /\ accountReqs = EmptyBag
    /\ lastEvent = Event("transfersSettled", 0, "ok")
    /\ tokenTransfers # NoData
    /\ tokenTransfers.ns = selectedNamespace
    /\ << tokenTransfers.limit, tokenTransfers.skip >>
          # << rowsPerPage, rowsPerPage * currentPage >>

----------------------------------------------------------------------------
(* The spinner *)

\* a step in which an input of a view changes or the user acts on it
InputStep == lastEvent'.op \in {"setPage", "setRowsPerPage", "scope"}

\* C12: in each of the three views, if every issued request settles in the
\* end (2xx, non-2xx or transport error) and the inputs stop changing in the
\* end, then loading becomes false and stays false.
C12_LoadingAlwaysClears == <>[][~InputStep]_vars => <>[]~loading

\* an input has changed, every request issued since has settled, the last of
\* them by a failure, and the spinner is off
C12_Witness ==
    /\ selectedNamespace = "N2"
    /\ ~RequestsInFlight
    /\ dashRuns = EmptyBag
    /\ lastEvent.out \in {"bad", "err"}
    /\ ~loading

----------------------------------------------------------------------------
(* AccountDetails: the page and the data *)

\* the transfers response applied last is that of the current inputs
LastResponseApplied == tokenTransfers = CurrentTransfersRequest

\* C13: in every quiescent state of AccountDetails (no transfers request in
\* flight, the response of the current request applied), currentPage = 0 or
\* rowsPerPage * currentPage < tokenTransfersTotal: the user is never on a
\* page past the end of the data.
C13_PageWithinData ==
    TransfersQuiescent /\ LastResponseApplied =>
       \/ currentPage = 0
       \/ rowsPerPage * currentPage < tokenTransfersTotal

====
